---- MODULE Spec2Model ----
(***************************************************************************)
(* Model of src/app.py: the level search of process_files_to_target_size   *)
(* and the Streamlit handler that calls it.                                *)
(*                                                                         *)
(* A file is a record [name, size]; the i-th discovered non-PDF and the    *)
(* i-th discovered PDF live in directories of their own under              *)
(* processing_temp, so two discovered files may share a name.  File        *)
(* content is a record [kind, item, level]: "nonpdf"/"orig" for the bytes  *)
(* of a discovered file, "gs" for what Ghostscript wrote for PDF `item`    *)
(* at level `level`.  Ghostscript (and ocrmypdf in front of it) is an      *)
(* external tool: every call draws its outcome nondeterministically.       *)
(***************************************************************************)
EXTENDS Integers, Sequences, FiniteSets, TLC

\* ---- bounds of the model ----
MaxFiles == 2        \* discovered files (non-PDFs and PDFs together)
MaxSize == 2         \* largest file size, in bytes
MaxTarget == 2       \* largest target size, in bytes

\* ---- names ----
NonPdfNames == {"a.txt", "b.txt"}
PdfNames == {"a.pdf", "compressed_a.pdf"}
\* the values uuid4().hex[:4] may take (line 186)
HexSuffixes == {"h1", "h2"}
NoSuffix == ""

COMPRESSION_LEVELS == <<"/prepress", "/printer", "/screen">>
NumLevels == Len(COMPRESSION_LEVELS)

Outcomes == {"ok", "gs_error", "no_output", "empty_output"}

VARIABLES
    pc,                     \* position of the run
    target_size,            \* target_bytes handed to the function
    non_pdf_files_initial,  \* Seq of [name, size]
    pdf_files_initial,      \* Seq of [name, size]
    non_pdf_total_size,
    level,                  \* index into COMPRESSION_LEVELS of the current pass
    idx,                    \* PDFs handled in the current pass
    compressed_pdf_paths,   \* Seq of [dir, prefixed, base, content]
    total_current_size,
    dirs,                   \* scratch directories that exist under BASE_TEMP_DIR
    output_dir,             \* OUTPUT_DIR: set of [name, content], one per name
    ret,                    \* what process_files_to_target_size returned
    ui,                     \* what the page ended up showing
    attempt_log,            \* history: [flag, over] per finished pass
    smallest_total,         \* history: the smallest total a finished pass measured
    compress_calls,         \* history: <<level, pdf>> of every compress_pdf call
    last_outcome            \* history: how the latest compress_pdf call of the pass went

vars == <<pc, target_size, non_pdf_files_initial, pdf_files_initial,
          non_pdf_total_size, level, idx, compressed_pdf_paths,
          total_current_size, dirs, output_dir, ret, ui, attempt_log,
          smallest_total, compress_calls, last_outcome>>

\* ---- helpers ----
RECURSIVE SumSizes(_)
SumSizes(files) ==
    IF files = << >> THEN 0 ELSE Head(files).size + SumSizes(Tail(files))

RECURSIVE SeqsUpTo(_, _)
SeqsUpTo(S, n) ==
    IF n = 0 THEN {<< >>}
    ELSE LET shorter == SeqsUpTo(S, n - 1)
         IN  shorter \cup {Append(s, x) : s \in {t \in shorter : Len(t) = n - 1}, x \in S}

\* a discovered file; a PDF holds at least one byte
Files(names, least) == [name : names, size : least..MaxSize]

ProcessingTemp == <<"processing_temp", 0>>
AttemptDir(l) == <<"attempt", l>>

NoReturn == [selected_files |-> "pending", final_output_files |-> << >>,
             error_msg |-> "none", reported_size |-> 0]

\* ---- process_files_to_target_size: discovery and the opaque floor ----

\* mutant of OpaqueOverBudget: the early return fires one byte late
OpaqueOverBudgetLate(total, target) == total > target + 1

\* line 108: the early return on the non-PDF total
OpaqueOverBudget(total, target) == total >= target

\* lines 192-194 and 199-201: processing_temp and every attempt_* directory go
CleanedUp(existing) ==
    existing \ ({ProcessingTemp} \cup {AttemptDir(l) : l \in 1..NumLevels})

\* a return ends the life of the loop's local variables
LocalsDropped ==
    /\ level' = 0
    /\ idx' = 0
    /\ compressed_pdf_paths' = << >>
    /\ total_current_size' = 0
    /\ last_outcome' = "none"

\* lines 239-245 and 86-105: the button is pressed with some upload and target;
\* the upload is unpacked under processing_temp and classified by suffix
Start ==
    /\ pc = "idle"
    /\ \E nonpdfs \in SeqsUpTo(Files(NonPdfNames, 0), MaxFiles),
          pdfs \in SeqsUpTo(Files(PdfNames, 1), MaxFiles),
          target \in 0..MaxTarget :
         /\ Len(nonpdfs) + Len(pdfs) <= MaxFiles
         /\ non_pdf_files_initial' = nonpdfs
         /\ pdf_files_initial' = pdfs
         /\ target_size' = target
         /\ non_pdf_total_size' = SumSizes(nonpdfs)
    /\ dirs' = {ProcessingTemp}
    /\ pc' = "gathered"
    /\ UNCHANGED <<level, idx, compressed_pdf_paths, total_current_size,
                   output_dir, ret, ui, attempt_log, smallest_total,
                   compress_calls, last_outcome>>

\* lines 108-109: return the non-PDF error; nothing is removed on this path
ReturnOpaqueOverBudget ==
    /\ pc = "gathered"
    /\ OpaqueOverBudget(non_pdf_total_size, target_size)
    /\ ret' = [selected_files |-> "None", final_output_files |-> << >>,
               error_msg |-> "non_pdf_exceed", reported_size |-> non_pdf_total_size]
    /\ pc' = "returned"
    /\ LocalsDropped
    /\ UNCHANGED <<target_size, non_pdf_files_initial, pdf_files_initial,
                   non_pdf_total_size, dirs, output_dir, ui, attempt_log,
                   smallest_total, compress_calls>>

\* line 114: the first level of the dictionary, in definition order
FirstLevel == 1
\* line 114: the level after l
NextLevel(l) == l + 1

\* mutant of InitialPaths: the list of outputs survives from pass to pass
InitialPathsKept(previous) == previous

\* line 127: every pass starts its list of outputs afresh
InitialPaths(previous) == << >>

\* line 128: every pass starts its total at the non-PDF total
InitialTotal(previous, nonpdf_total) == nonpdf_total

\* lines 114-130: enter the pass for level l
EnterPass(l) ==
    /\ level' = l
    /\ dirs' = dirs \cup {AttemptDir(l)}
    /\ compressed_pdf_paths' = InitialPaths(compressed_pdf_paths)
    /\ total_current_size' = InitialTotal(total_current_size, non_pdf_total_size)
    /\ idx' = 0
    /\ last_outcome' = "none"
    /\ pc' = "pass"

\* lines 108-130: the non-PDF total is under the target; the first pass begins
BeginSearch ==
    /\ pc = "gathered"
    /\ ~OpaqueOverBudget(non_pdf_total_size, target_size)
    /\ EnterPass(FirstLevel)
    /\ UNCHANGED <<target_size, non_pdf_files_initial, pdf_files_initial,
                   non_pdf_total_size, output_dir, ret, ui, attempt_log,
                   smallest_total, compress_calls>>

\* ---- compress_pdf and the measurement of its output ----

OrigContent(i) == [kind |-> "orig", item |-> i, level |-> 0]
GsContent(i, l) == [kind |-> "gs", item |-> i, level |-> l]
NonPdfContent(i) == [kind |-> "nonpdf", item |-> i, level |-> 0]

\* lines 27-70: the file found at output_path after compress_pdf(input, output, flag).
\* Ghostscript writes `size` bytes ("ok"), writes an empty file, writes nothing,
\* or fails, and then the except branches copy the input to output_path.
compress_pdf(i, pdf, l, outcome, size) ==
    CASE outcome = "ok" -> [exists |-> TRUE, content |-> GsContent(i, l), size |-> size]
      [] outcome = "empty_output" -> [exists |-> TRUE, content |-> GsContent(i, l), size |-> 0]
      [] outcome = "no_output" -> [exists |-> FALSE, content |-> GsContent(i, l), size |-> 0]
      [] outcome = "gs_error" -> [exists |-> TRUE, content |-> OrigContent(i), size |-> pdf.size]

\* lines 135-136: compressed_<uuid>_<name> inside the attempt directory
OutputPath(i, pdf, l, out) ==
    [dir |-> AttemptDir(l), prefixed |-> TRUE, base |-> pdf.name, content |-> out.content]
\* the discovered PDF itself, under processing_temp
InitialPath(i, pdf) ==
    [dir |-> ProcessingTemp, prefixed |-> FALSE, base |-> pdf.name, content |-> OrigContent(i)]

\* mutant of Measured: the fallback to the original forgets to add its size
MeasuredForgetsOriginal(i, pdf, l, out) ==
    IF out.exists /\ out.size > 0
    THEN [size |-> out.size, path |-> OutputPath(i, pdf, l, out)]
    ELSE [size |-> 0, path |-> InitialPath(i, pdf)]

\* lines 142-150: what one PDF adds to the pass: the output when it exists and is
\* not empty, the original otherwise
Measured(i, pdf, l, out) ==
    IF out.exists /\ out.size > 0
    THEN [size |-> out.size, path |-> OutputPath(i, pdf, l, out)]
    ELSE [size |-> pdf.size, path |-> InitialPath(i, pdf)]

\* mutant of PassComplete: the total is compared with one PDF still to go
PassCompleteEarly(done, n) == done + 1 >= n

\* line 132: the loop over the PDFs goes on while some PDF is left
PassComplete(done, n) == done = n

\* lines 132-152: one iteration of the loop over the PDFs
CompressOne ==
    /\ pc = "pass"
    /\ ~PassComplete(idx, Len(pdf_files_initial))
    /\ idx < Len(pdf_files_initial)
    /\ LET i == idx + 1
           pdf == pdf_files_initial[i]
       IN  \E outcome \in Outcomes :
           \E size \in (IF outcome = "ok" THEN 1..MaxSize ELSE {0}) :
             LET out == compress_pdf(i, pdf, level, outcome, size)
                 m == Measured(i, pdf, level, out)
             IN  /\ total_current_size' = total_current_size + m.size
                 /\ compressed_pdf_paths' = Append(compressed_pdf_paths, m.path)
                 /\ compress_calls' = Append(compress_calls, <<level, i>>)
                 /\ last_outcome' = outcome
    /\ idx' = idx + 1
    /\ UNCHANGED <<pc, target_size, non_pdf_files_initial, pdf_files_initial,
                   non_pdf_total_size, level, dirs, output_dir, ret, ui, attempt_log,
                   smallest_total>>

\* ---- the decision at the end of a pass ----

\* mutant of TargetMet: a total one byte above the target is accepted
TargetMetLoose(total, target) == total <= target + 1

\* line 159
TargetMet(total, target) == total <= target

\* lines 177-181 applied to the name of a discovered PDF: drop the part before
\* the first "_" (the part after it is not 32 characters long)
StripCompressed(name) == IF name = "compressed_a.pdf" THEN "a.pdf" ELSE name

\* lines 174-181: the name a file of compressed_pdf_paths gets in OUTPUT_DIR.
\* compressed_<uuid>_<name> gives <name> back; a discovered PDF used as it is
\* keeps its name unless "compressed_" occurs in it.
FinalPdfName(path) ==
    IF path.prefixed THEN path.base ELSE StripCompressed(path.base)

NamesIn(directory) == {f.name : f \in directory}

\* shutil.copy into a directory: a file of that name is overwritten
CopyInto(directory, name, content) ==
    {f \in directory : f.name # name} \cup {[name |-> name, content |-> content]}

\* lines 168-170: the name a non-PDF gets in OUTPUT_DIR
NonPdfDestination(file) == <<file.name, NoSuffix>>

\* lines 168-170: the non-PDFs go to OUTPUT_DIR under their bare names
RECURSIVE CopyNonPdfs(_, _, _)
CopyNonPdfs(files, i, acc) ==
    IF i > Len(files) THEN acc
    ELSE LET name == NonPdfDestination(files[i])
         IN  CopyNonPdfs(files, i + 1,
                 [directory |-> CopyInto(acc.directory, name, NonPdfContent(i)),
                  final_output_files |-> Append(acc.final_output_files, name)])

\* lines 184-186: a taken name gets a 4-character piece of a fresh uuid
Destination(directory, base, hex) ==
    IF <<base, NoSuffix>> \in NamesIn(directory)
    THEN <<base, hex>> ELSE <<base, NoSuffix>>

\* lines 172-189: the files of compressed_pdf_paths go to OUTPUT_DIR
RECURSIVE CopyPdfs(_, _, _, _)
CopyPdfs(paths, hexes, i, acc) ==
    IF i > Len(paths) THEN acc
    ELSE LET name == Destination(acc.directory, FinalPdfName(paths[i]), hexes[i])
         IN  CopyPdfs(paths, hexes, i + 1,
                 [directory |-> CopyInto(acc.directory, name, paths[i].content),
                  final_output_files |-> Append(acc.final_output_files, name)])

\* lines 162-189: OUTPUT_DIR is emptied and filled again
Consolidate(nonpdfs, paths, hexes) ==
    CopyPdfs(paths, hexes, 1,
        CopyNonPdfs(nonpdfs, 1, [directory |-> {}, final_output_files |-> << >>]))

\* history of the finished passes: the flag tried and whether the measured total
\* was above the target, and the smallest total measured so far
Attempt(l, total) == [flag |-> COMPRESSION_LEVELS[l], over |-> total > target_size]
Smallest(total) ==
    IF attempt_log = << >> \/ total < smallest_total THEN total ELSE smallest_total
RecordAttempt ==
    /\ attempt_log' = Append(attempt_log, Attempt(level, total_current_size))
    /\ smallest_total' = Smallest(total_current_size)

\* lines 159-196: the pass meets the target: consolidate, clean up, return
ReturnSuccess ==
    /\ pc = "pass"
    /\ PassComplete(idx, Len(pdf_files_initial))
    /\ TargetMet(total_current_size, target_size)
    /\ \E hexes \in [1..Len(compressed_pdf_paths) -> HexSuffixes] :
         LET result == Consolidate(non_pdf_files_initial, compressed_pdf_paths, hexes)
         IN  /\ output_dir' = result.directory
             /\ ret' = [selected_files |-> "files",
                        final_output_files |-> result.final_output_files,
                        error_msg |-> "none", reported_size |-> 0]
    /\ dirs' = CleanedUp(dirs)
    /\ RecordAttempt
    /\ pc' = "returned"
    /\ LocalsDropped
    /\ UNCHANGED <<target_size, non_pdf_files_initial, pdf_files_initial,
                   non_pdf_total_size, ui, compress_calls>>

\* lines 159 and 114: the pass misses the target and a level is left
NextPass ==
    /\ pc = "pass"
    /\ PassComplete(idx, Len(pdf_files_initial))
    /\ ~TargetMet(total_current_size, target_size)
    /\ level < NumLevels
    /\ RecordAttempt
    /\ EnterPass(NextLevel(level))
    /\ UNCHANGED <<target_size, non_pdf_files_initial, pdf_files_initial,
                   non_pdf_total_size, output_dir, ret, ui, compress_calls>>

\* line 202: the size the failure message calls "the smallest achieved total size"
ReportedSize(total) == total

\* lines 198-202: the last pass misses the target: clean up, return the message
ReturnExhausted ==
    /\ pc = "pass"
    /\ PassComplete(idx, Len(pdf_files_initial))
    /\ ~TargetMet(total_current_size, target_size)
    /\ level >= NumLevels
    /\ RecordAttempt
    /\ dirs' = CleanedUp(dirs)
    /\ ret' = [selected_files |-> "None", final_output_files |-> << >>,
               error_msg |-> "not_reduced",
               reported_size |-> ReportedSize(total_current_size)]
    /\ pc' = "returned"
    /\ LocalsDropped
    /\ UNCHANGED <<target_size, non_pdf_files_initial, pdf_files_initial,
                   non_pdf_total_size, output_dir, ui, compress_calls>>

\* ---- the Streamlit handler, lines 247-270 ----

\* mutant of Shown: the page forgets to look for a failed search
ShownIgnoresFailure(selected_files, existing_selected_files) ==
    IF existing_selected_files = << >> THEN "nothing_to_zip" ELSE "download"

\* lines 250-270: what the page does with the returned triple
Shown(selected_files, existing_selected_files) ==
    IF selected_files = "None" THEN "error_msg"
    ELSE IF existing_selected_files = << >> THEN "nothing_to_zip"
    ELSE "download"

UiUnchanged ==
    UNCHANGED <<target_size, non_pdf_files_initial, pdf_files_initial,
                non_pdf_total_size, level, idx, compressed_pdf_paths,
                total_current_size, dirs, output_dir, ret, attempt_log,
                smallest_total, compress_calls, last_outcome>>

\* lines 250-251: st.error(error_msg); the run ends
ShowError ==
    /\ pc = "returned"
    /\ Shown(ret.selected_files, ret.final_output_files) = "error_msg"
    /\ ui' = "error_msg"
    /\ pc' = "done"
    /\ UiUnchanged

\* lines 255-256: nothing to zip
ShowNothingToZip ==
    /\ pc = "returned"
    /\ Shown(ret.selected_files, ret.final_output_files) = "nothing_to_zip"
    /\ ui' = "nothing_to_zip"
    /\ pc' = "done"
    /\ UiUnchanged

\* lines 258-270: zip the files and offer the download
OfferDownload ==
    /\ pc = "returned"
    /\ Shown(ret.selected_files, ret.final_output_files) = "download"
    /\ ui' = "download"
    /\ pc' = "done"
    /\ UiUnchanged

\* ---- the specification ----

\* lines 10-16: the page is loaded, the session directories exist and are empty
Init ==
    /\ pc = "idle"
    /\ target_size = 0
    /\ non_pdf_files_initial = << >>
    /\ pdf_files_initial = << >>
    /\ non_pdf_total_size = 0
    /\ level = 0
    /\ idx = 0
    /\ compressed_pdf_paths = << >>
    /\ total_current_size = 0
    /\ dirs = {}
    /\ output_dir = {}
    /\ ret = NoReturn
    /\ ui = "none"
    /\ attempt_log = << >>
    /\ smallest_total = 0
    /\ compress_calls = << >>
    /\ last_outcome = "none"

Next ==
    \/ Start
    \/ ReturnOpaqueOverBudget
    \/ BeginSearch
    \/ CompressOne
    \/ ReturnSuccess
    \/ NextPass
    \/ ReturnExhausted
    \/ ShowError
    \/ ShowNothingToZip
    \/ OfferDownload

Spec == Init /\ [][Next]_vars

\* ---- properties ----

Returned == pc \in {"returned", "done"}
Succeeded == Returned /\ ret.selected_files = "files"
Passes == Len(attempt_log)
NumPdfs == Len(pdf_files_initial)
NumNonPdfs == Len(non_pdf_files_initial)
\* the k-th call of a search that gives every pass one call per PDF, in order
NthCall(k) == <<((k - 1) \div NumPdfs) + 1, ((k - 1) % NumPdfs) + 1>>
\* the calls due so far: all of the finished passes, idx of the running one
CallsMade == NumPdfs * Passes + (IF pc = "pass" THEN idx ELSE 0)
AttemptDirs == {d \in dirs : d[1] = "attempt"}
PdfFilesOf(directory) == {f \in directory : f.content.kind # "nonpdf"}

C2_OpaqueWithinBudgetSucceeds ==
    (Returned /\ NumPdfs = 0 /\ non_pdf_total_size <= target_size) =>
        /\ ret.selected_files = "files"
        /\ Passes = 1
        /\ attempt_log[1].flag = COMPRESSION_LEVELS[1]
        /\ compress_calls = << >>

\* C3: with a non-PDF total above the target the function returns the
\* "non-PDF files alone exceed" error before any level: no pass is entered,
\* no attempt directory exists and compress_pdf is never called.
C3_OpaqueOverBudgetFailsEarly ==
    (pc # "idle" /\ non_pdf_total_size > target_size) =>
        /\ pc # "pass"
        /\ AttemptDirs = {}
        /\ compress_calls = << >>
        /\ attempt_log = << >>
        /\ Returned => /\ ret.selected_files = "None"
                       /\ ret.error_msg = "non_pdf_exceed"

\* the early return with PDFs waiting that were never compressed
C3_Witness ==
    /\ pc = "returned"
    /\ non_pdf_total_size > target_size
    /\ NumPdfs >= 1
    /\ ret.error_msg = "non_pdf_exceed"

\* C4: when every level misses the target, the size in the failure message is
\* the smallest total measured over the passes.
C4_ReportsSmallestTotal ==
    (Returned /\ ret.error_msg = "not_reduced") => ret.reported_size = smallest_total

\* C5: a compress_pdf call that fails (Ghostscript error, no output, empty
\* output) adds the PDF's original size and its original content to the pass,
\* the pass goes on (nothing is returned), and a pass is decided only once
\* every PDF has been handled.
C5_FailureAbsorbed ==
    [][ /\ (pc = "pass" /\ idx' = idx + 1 /\ last_outcome' # "ok") =>
             /\ total_current_size' = total_current_size + pdf_files_initial[idx'].size
             /\ Len(compressed_pdf_paths') = idx'
             /\ compressed_pdf_paths'[idx'].content = OrigContent(idx')
             /\ pc' = "pass"
             /\ ret' = ret
             /\ attempt_log' = attempt_log
        /\ (attempt_log' # attempt_log) => idx = NumPdfs
      ]_vars

\* the first PDF failed, and the second was compressed after it in the same pass
C5_Witness ==
    /\ pc = "pass"
    /\ idx = 2
    /\ compressed_pdf_paths[1].content.kind = "orig"
    /\ compressed_pdf_paths[2].content.kind = "gs"
    /\ last_outcome = "ok"

\* C6: on success every discovered file is a file of its own in the result: as
\* many distinct output files as discovered files.
C6_NoItemDropped ==
    Succeeded =>
        /\ Cardinality(output_dir) = NumNonPdfs + NumPdfs
        /\ Cardinality({ret.final_output_files[k] : k \in 1..Len(ret.final_output_files)})
             = NumNonPdfs + NumPdfs

C8_NoStaleOutput ==
    /\ pc = "pass" =>
         /\ Len(compressed_pdf_paths) = idx
         /\ \A i \in 1..Len(compressed_pdf_paths) :
              LET p == compressed_pdf_paths[i]
              IN  /\ p.dir \in {AttemptDir(level), ProcessingTemp}
                  /\ p.content \in {GsContent(i, level), OrigContent(i)}
    /\ Succeeded =>
         \A f \in PdfFilesOf(output_dir) :
            \E i \in 1..NumPdfs :
               /\ f.content \in {GsContent(i, Passes), OrigContent(i)}
               /\ f.name[1] \in {pdf_files_initial[i].name,
                                 StripCompressed(pdf_files_initial[i].name)}

\* success at the second level or later, with a Ghostscript output and an
\* original side by side in the result
C8_Witness ==
    /\ Succeeded
    /\ Passes >= 2
    /\ \E f, g \in output_dir : f.content.kind = "gs" /\ g.content.kind = "orig"

\* C9: at most |COMPRESSION_LEVELS| passes, no level twice; pass l calls
\* compress_pdf once for every discovered PDF, in order, and never again; the
\* total of a pass is compared only when all its calls are made; the run
\* stops only once the page has shown its result.
C9_BoundedSearch ==
    /\ Passes <= NumLevels
    /\ \A j, k \in 1..Passes : attempt_log[j].flag = attempt_log[k].flag => j = k
    /\ Len(compress_calls) = CallsMade
    /\ \A k \in 1..Len(compress_calls) : compress_calls[k] = NthCall(k)
    /\ pc = "done" \/ ENABLED Next

\* all three levels tried on two PDFs: six calls, then the failure
C9_Witness ==
    /\ pc = "returned"
    /\ ret.error_msg = "not_reduced"
    /\ NumPdfs = 2
    /\ Len(compress_calls) = 6

\* C10: when the function has returned (with success, with every level tried,
\* or early with the non-PDF total above the target), processing_temp and
\* every attempt_* directory are gone.
C10_ScratchRemoved ==
    (/\ Returned
     /\ ret.error_msg = "non_pdf_exceed" => non_pdf_total_size > target_size)
    => dirs = {}

====
